---- MODULE Spec2Model ----
(***************************************************************************)
(* Model of app5.py, the "Advanced Engineered Landfill Simulation" page.   *)
(*                                                                         *)
(* The page is a Streamlit script: every change of a sidebar widget runs   *)
(* the whole script again, from the widget reads to the last markdown      *)
(* call.  The state is the four widget values and everything the script    *)
(* derives from them in one run: the two grids, the two concentration      *)
(* fields, the animation frames, the figure's initial traces and the       *)
(* design text.  One action per widget; each action is the widget change   *)
(* together with the complete rerun it triggers.                           *)
(*                                                                         *)
(* Numbers.  The script computes in IEEE doubles; TLC has 32-bit integers. *)
(* A real r is modelled by the integer floor(r * Scale), Scale = 10^6, and *)
(* exp and cos by range reduction and a truncated Taylor series in that    *)
(* fixed-point arithmetic.  Quantities below 10^-6 are therefore lost: the *)
(* liner attenuation exp(-10k) is 0.999999 for clay and 1 for the other    *)
(* two liners.                                                             *)
(***************************************************************************)
EXTENDS Integers, Sequences, FiniteSets, TLC

(***************************************************************************)
(* Fixed-point arithmetic                                                  *)
(***************************************************************************)
Limb == 10 * 10 * 10
Scale == Limb * Limb

Abs(a) == IF a < 0 THEN -a ELSE a

\* floor(a * b / Scale) for a, b >= 0, by limbs so that no intermediate
\* product leaves the 32-bit range.
Mul(a, b) ==
    LET a1 == a \div Limb
        a0 == a % Limb
        b1 == b \div Limb
        b0 == b % Limb
    IN  a1 * b1 + ((a1 * b0 + a0 * b1 + ((a0 * b0) \div Limb)) \div Limb)

\* Long division: the quotient q of a / b so far and the remainder r, carried
\* through n more decimal digits.
RECURSIVE DivDigits(_, _, _, _)
DivDigits(q, r, b, n) ==
    IF n = 0 THEN q
    ELSE DivDigits(q * 10 + ((r * 10) \div b), (r * 10) % b, b, n - 1)

\* floor(a * Scale / b) for a >= 0, b > 0 (six decimal digits after the point).
Div(a, b) == DivDigits(a \div b, a % b, b, 6)

\* exp(-n) for a natural n, in fixed point.
ExpNegInt(n) ==
    CASE n = 0 -> Scale
      [] n = 1 -> 367879
      [] n = 2 -> 135335
      [] n = 3 -> 49787
      [] n = 4 -> 18316
      [] n = 5 -> 6738
      [] n = 6 -> 2479
      [] n = 7 -> 912
      [] n = 8 -> 335
      [] n = 9 -> 123
      [] n = 10 -> 45
      [] n = 11 -> 17
      [] n = 12 -> 6
      [] n = 13 -> 2
      [] n = 14 -> 1
      [] OTHER -> 0

\* Horner evaluation of the Taylor series of exp(-f), 0 <= f < 1:
\* h_k = 1 - (f / k) * h_(k+1), from term k down to term 1.
RECURSIVE ExpNegFrac(_, _, _)
ExpNegFrac(f, kk, h) ==
    IF kk = 0 THEN h
    ELSE ExpNegFrac(f, kk - 1, Scale - (Mul(f, h) \div kk))

ExpTerms == 10

\* np.exp(-a) for a >= 0.
ExpNeg(a) ==
    IF a \div Scale > 14 THEN 0
    ELSE Mul(ExpNegInt(a \div Scale), ExpNegFrac(a % Scale, ExpTerms, Scale))

\* np.pi
Pi == 3141593

\* Taylor series of cos(r) for 0 <= r <= pi/2, Horner form in y = r^2:
\* h_k = 1 - y / ((2k-1) 2k) * h_(k+1).  The result may be -1 or -2 units
\* at pi/2, where the true value is 0.
RECURSIVE CosSeries(_, _, _)
CosSeries(y, kk, h) ==
    IF kk = 0 THEN h
    ELSE CosSeries(y, kk - 1, Scale - (Mul(y, h) \div ((2 * kk - 1) * (2 * kk))))

CosTerms == 7

\* np.cos(a) for a >= 0: reduce to [0, 2 pi), fold to [0, pi/2] by
\* cos(2 pi - r) = cos(r) and cos(pi - r) = -cos(r).
Cos(a) ==
    LET r2 == a % (2 * Pi)
        r1 == IF r2 > Pi THEN 2 * Pi - r2 ELSE r2
    IN  IF 2 * r1 > Pi
        THEN -CosSeries(Mul(Pi - r1, Pi - r1), CosTerms, Scale)
        ELSE CosSeries(Mul(r1, r1), CosTerms, Scale)

\* Mutant of Sq: c * 2 written for c ** 2.
SqAsDouble(c) == 2 * c

\* c ** 2
Sq(c) == Mul(Abs(c), Abs(c))

(***************************************************************************)
(* The widgets (lines 13-19)                                               *)
(***************************************************************************)
\* Slider ranges in slider steps: velocity 0.1 .. 10.0 by 0.1 (default 2.0),
\* diffusion 0.01 .. 2.0 by 0.01 (default 0.3).
VelocityMinStep == 1
VelocityMaxStep == 100
VelocityDefaultStep == 20
DiffusionMinStep == 1
DiffusionMaxStep == 200
DiffusionDefaultStep == 30

\* The value of a slider position, in fixed point.
VelocityValue(n) == n * (Scale \div 10)
DiffusionValue(n) == n * (Scale \div 100)

LinerTypes == <<"Clay (1e-7 m/s)", "Geomembrane (1e-9 m/s)", "Composite (1e-10 m/s)">>
DesignOptions == <<"Design A - Basic", "Design B - Composite", "Design C - Eco-Advanced">>

\* liner_values, in units of 1e-10 m/s.
liner_values(l) ==
    CASE l = "Clay (1e-7 m/s)" -> 1000
      [] l = "Geomembrane (1e-9 m/s)" -> 10
      [] l = "Composite (1e-10 m/s)" -> 1

\* k * 10 in fixed point (k in units of 1e-10: 10 k / 10^10 * Scale).
KTimes10(k) == (k * 10) \div (10 * Limb)

(***************************************************************************)
(* The simulation domain (lines 22-24)                                     *)
(***************************************************************************)
DistancePoints == 50
TimePoints == 80

\* np.linspace(start, stop, num): start + i * step with
\* step = (stop - start) / (num - 1), and the last point set to stop.
Linspace(start, stop, num) ==
    LET step == (stop - start) \div (num - 1)
    IN  [i \in 1..num |-> IF i = num THEN stop ELSE start + (i - 1) * step]

\* Mutant of TimeGrid: the end points of the time axis swapped,
\* np.linspace(40, 0.1, 80).
TimeGridReversed == Linspace(40 * Scale, Scale \div 10, TimePoints)

DistanceGrid == Linspace(0, 5 * Scale, DistancePoints)
TimeGrid == Linspace(Scale \div 10, 40 * Scale, TimePoints)

\* np.meshgrid(x, t): X[i][j] = x[j] and T[i][j] = t[i], both len(t) rows
\* of len(x) columns.
MeshX(xs, ts) == [i \in 1..Len(ts) |-> [j \in 1..Len(xs) |-> xs[j]]]
MeshT(xs, ts) == [i \in 1..Len(ts) |-> [j \in 1..Len(xs) |-> ts[i]]]

(***************************************************************************)
(* The fields (lines 27 and 30)                                            *)
(***************************************************************************)
\* One leachate value: exp(-((X - v T)^2) / (4 T)) * exp(-k * 10).  The
\* quotient is evaluated as |X - v T| * (|X - v T| / (4 T)), which keeps
\* every intermediate within 32 bits.
LeachateAt(v, k, xx, tt) ==
    LET d == Abs(xx - Mul(v, tt))
    IN  Mul(ExpNeg(Mul(d, Div(d, 4 * tt))), ExpNeg(KTimes10(k)))

\* Mutant of GasAt: the decay factor without the time, exp(-diffusion / 10).
GasAtWithoutTime(dg, xx, tt) ==
    Mul(ExpNeg(dg \div 10), Sq(Cos(Mul(Pi, xx) \div 20)))

\* Mutant of GasAt: the cosine of pi x / 40, whose zeros are the odd
\* multiples of 20.
GasAtHalfAngle(dg, xx, tt) ==
    Mul(ExpNeg(Mul(dg, tt) \div 10), Sq(Cos(Mul(Pi, xx) \div 40)))

\* One gas value: exp(-diffusion T / 10) * cos(pi X / 20)^2.
GasAt(dg, xx, tt) ==
    Mul(ExpNeg(Mul(dg, tt) \div 10), Sq(Cos(Mul(Pi, xx) \div 20)))

\* Mutant of LeachateField: the field laid out distance by time.
LeachateFieldTransposed(v, k, XX, TT) ==
    [j \in 1..Len(XX[1]) |-> [i \in 1..Len(XX) |-> LeachateAt(v, k, XX[i][j], TT[i][j])]]

LeachateField(v, k, XX, TT) ==
    [i \in 1..Len(XX) |-> [j \in 1..Len(XX[i]) |-> LeachateAt(v, k, XX[i][j], TT[i][j])]]

GasField(dg, XX, TT) ==
    [i \in 1..Len(XX) |-> [j \in 1..Len(XX[i]) |-> GasAt(dg, XX[i][j], TT[i][j])]]

(***************************************************************************)
(* The animation frames (lines 33-41) and the figure (lines 64-71)         *)
(***************************************************************************)
FrameStart == 1
FrameStride == 2

\* Mutant of Range: floor((stop - start) / step) indices.
RangeFloor(start, stop, step) ==
    [m \in 1..(IF stop > start THEN (stop - start) \div step ELSE 0) |-> start + (m - 1) * step]

\* range(start, stop, step) for step >= 1, as the sequence of the indices
\* the for loop visits: i = start, start + step, ... while i < stop.
RECURSIVE Range(_, _, _)
Range(start, stop, step) ==
    IF start < stop THEN <<start>> \o Range(start + step, stop, step) ELSE <<>>

\* Mutant of RowPrefix: C[:i + 1, :], the row of index i included.
RowPrefixInclusive(C, i) == SubSeq(C, 1, IF i + 1 < Len(C) THEN i + 1 ELSE Len(C))

\* C[:i, :]: the rows with (0-based) index below i.
RowPrefix(C, i) == SubSeq(C, 1, IF i < Len(C) THEN i ELSE Len(C))

\* round(v, 1), in tenths.
RoundTenths(v) == (v + (Scale \div 20)) \div (Scale \div 10)

\* f"t = {round(t[i], 1)} days"
FrameName(v) ==
    "t = " \o ToString(RoundTenths(v) \div 10) \o "." \o ToString(RoundTenths(v) % 10) \o " days"

\* Mutant of Frame: named after the time of the last row it holds.
FrameNamedAfterLastRow(CL, CG, ts, i) ==
    [data |-> <<RowPrefix(CL, i), RowPrefix(CG, i)>>, name |-> FrameName(ts[i])]

\* The go.Frame built for the (0-based) time index i; ts[i + 1] is t[i].
Frame(CL, CG, ts, i) ==
    [data |-> <<RowPrefix(CL, i), RowPrefix(CG, i)>>, name |-> FrameName(ts[i + 1])]

\* The loop of lines 33-41.
BuildFrames(CL, CG, ts) ==
    LET idx == Range(FrameStart, Len(ts), FrameStride)
    IN  [m \in 1..Len(idx) |-> Frame(CL, CG, ts, idx[m])]

\* The data of go.Figure: the first row of each field.
FigureData(CL, CG) == <<RowPrefix(CL, 1), RowPrefix(CG, 1)>>

(***************************************************************************)
(* The design comparison (lines 78-95)                                     *)
(***************************************************************************)
NoText == <<>>

\* Mutant of DesignText: the last branch shows the composite design's block.
DesignTextRepeated(o) ==
    IF o = "Design A - Basic" THEN
        << "Single clay liner.",
           "Economical but vulnerable to leachate seepage.",
           "Basic gas venting layer." >>
    ELSE
        << "Composite liner (clay + geomembrane).",
           "Enhanced leachate containment.",
           "Includes leachate collection and gas venting systems." >>

DesignText(o) ==
    IF o = "Design A - Basic" THEN
        << "Single clay liner.",
           "Economical but vulnerable to leachate seepage.",
           "Basic gas venting layer." >>
    ELSE IF o = "Design B - Composite" THEN
        << "Composite liner (clay + geomembrane).",
           "Enhanced leachate containment.",
           "Includes leachate collection and gas venting systems." >>
    ELSE IF o = "Design C - Eco-Advanced" THEN
        << "Multi-barrier system with GCL, HDPE liner, and biocover.",
           "Excellent environmental performance.",
           "Higher construction and maintenance cost." >>
    ELSE NoText

(***************************************************************************)
(* State                                                                   *)
(***************************************************************************)
VARIABLES
    velocity_leachate,  \* slider value, fixed point
    diffusion_gas,      \* slider value, fixed point
    liner_type,         \* selectbox value
    design_option,      \* radio value
    x, t,               \* the grids of the last run
    C_leachate, C_gas,  \* the fields of the last run
    frames,             \* the frames of the last run
    fig_data,           \* the figure's initial traces
    design_text,        \* the markdown block under "Design Comparison Summary"
    memo,               \* history variable: one earlier run, or NoMemo
    probe               \* the gas formula applied to one point off the grid

vars == <<velocity_leachate, diffusion_gas, liner_type, design_option,
          x, t, C_leachate, C_gas, frames, fig_data, design_text, memo, probe>>

NoMemo == [set |-> FALSE]
NoProbe == [set |-> FALSE]

(***************************************************************************)
(* The slider positions the model explores: VelocitySamples (DiffusionSamples) *)
(* positions spread evenly over the slider, both ends included, and the    *)
(* default.                                                                *)
(***************************************************************************)
VelocitySamples == 3
DiffusionSamples == 2

Spread(lo, hi, n) == {lo + ((m * (hi - lo)) \div (n - 1)) : m \in 0..(n - 1)}

VelocitySteps == Spread(VelocityMinStep, VelocityMaxStep, VelocitySamples) \cup {VelocityDefaultStep}
DiffusionSteps == Spread(DiffusionMinStep, DiffusionMaxStep, DiffusionSamples) \cup {DiffusionDefaultStep}

Elements(s) == {s[i] : i \in 1..Len(s)}

(***************************************************************************)
(* The fields of every widget combination the model explores, evaluated    *)
(* once: a run of the script looks its fields up here instead of           *)
(* evaluating 8000 exponentials again for each successor state.            *)
(***************************************************************************)
LeachateRuns ==
    [n \in VelocitySteps |-> [l \in Elements(LinerTypes) |->
        LeachateField(VelocityValue(n), liner_values(l),
                      MeshX(DistanceGrid, TimeGrid), MeshT(DistanceGrid, TimeGrid))]]

GasRuns ==
    [n \in DiffusionSteps |->
        GasField(DiffusionValue(n),
                 MeshX(DistanceGrid, TimeGrid), MeshT(DistanceGrid, TimeGrid))]

\* Mutant of Rerun: the leachate field is kept from the last run unless the
\* velocity slider has moved.
RerunLeachateKeptByVelocity(vn, dn, l, o) ==
    /\ velocity_leachate' = VelocityValue(vn)
    /\ diffusion_gas' = DiffusionValue(dn)
    /\ liner_type' = l
    /\ design_option' = o
    /\ x' = DistanceGrid
    /\ t' = TimeGrid
    /\ C_leachate' = IF VelocityValue(vn) = velocity_leachate THEN C_leachate ELSE LeachateRuns[vn][l]
    /\ C_gas' = GasRuns[dn]
    /\ frames' = BuildFrames(C_leachate', C_gas', t')
    /\ fig_data' = FigureData(C_leachate', C_gas')
    /\ design_text' = DesignText(o)

(***************************************************************************)
(* One run of the script with the sliders at positions vn and dn, liner l  *)
(* and design option o: lines 13 to 95.                                    *)
(***************************************************************************)
Rerun(vn, dn, l, o) ==
    /\ velocity_leachate' = VelocityValue(vn)
    /\ diffusion_gas' = DiffusionValue(dn)
    /\ liner_type' = l
    /\ design_option' = o
    /\ x' = DistanceGrid
    /\ t' = TimeGrid
    /\ C_leachate' = LeachateRuns[vn][l]
    /\ C_gas' = GasRuns[dn]
    /\ frames' = BuildFrames(C_leachate', C_gas', t')
    /\ fig_data' = FigureData(C_leachate', C_gas')
    /\ design_text' = DesignText(o)

\* The slider position of a value.
VelocityStep(v) == v \div (Scale \div 10)
DiffusionStep(d) == d \div (Scale \div 100)

\* The first run: every widget at its default (the slider defaults, the
\* first option of the selectbox and of the radio).
FirstRun ==
    /\ velocity_leachate = VelocityValue(VelocityDefaultStep)
    /\ diffusion_gas = DiffusionValue(DiffusionDefaultStep)
    /\ liner_type = LinerTypes[1]
    /\ design_option = DesignOptions[1]
    /\ x = DistanceGrid
    /\ t = TimeGrid
    /\ C_leachate = LeachateRuns[VelocityDefaultStep][liner_type]
    /\ C_gas = GasRuns[DiffusionDefaultStep]
    /\ frames = BuildFrames(C_leachate, C_gas, t)
    /\ fig_data = FigureData(C_leachate, C_gas)
    /\ design_text = DesignText(design_option)

\* A widget is changed (to one of the values in the given set) and the
\* script runs again.
ChangeVelocity(steps) ==
    \E n \in steps :
        /\ VelocityValue(n) # velocity_leachate
        /\ Rerun(n, DiffusionStep(diffusion_gas), liner_type, design_option)

ChangeDiffusion(steps) ==
    \E n \in steps :
        /\ DiffusionValue(n) # diffusion_gas
        /\ Rerun(VelocityStep(velocity_leachate), n, liner_type, design_option)

ChangeLiner(liners) ==
    \E l \in liners :
        /\ l # liner_type
        /\ Rerun(VelocityStep(velocity_leachate), DiffusionStep(diffusion_gas), l, design_option)

ChangeDesign(options) ==
    \E o \in options :
        /\ o # design_option
        /\ Rerun(VelocityStep(velocity_leachate), DiffusionStep(diffusion_gas), liner_type, o)

(***************************************************************************)
(* Spec: the page under any sequence of widget changes.                    *)
(***************************************************************************)
Init == FirstRun /\ memo = NoMemo /\ probe = NoProbe

SetVelocity == ChangeVelocity(VelocitySteps) /\ UNCHANGED <<memo, probe>>

SetDiffusion == ChangeDiffusion(DiffusionSteps) /\ UNCHANGED <<memo, probe>>

SetLiner == ChangeLiner(Elements(LinerTypes)) /\ UNCHANGED <<memo, probe>>

SetDesign == ChangeDesign(Elements(DesignOptions)) /\ UNCHANGED <<memo, probe>>

Next == SetVelocity \/ SetDiffusion \/ SetLiner \/ SetDesign

Spec == Init /\ [][Next]_vars

(***************************************************************************)
(* SpecHistory: the same page, with a history variable.  Before any rerun  *)
(* the outgoing run (its widget tuple, fields and frames) may be recorded  *)
(* in memo, so that a later run with the same tuple, reached through       *)
(* other runs, can be compared with it.  The widgets move over fewer       *)
(* values here: the default and the upper end of each slider, the first    *)
(* two liners and the first HistoryDesigns design options.                 *)
(***************************************************************************)
HistoryDesigns == 2

HistoryVelocitySteps == {VelocityDefaultStep, VelocityMaxStep}
HistoryDiffusionSteps == {DiffusionDefaultStep, DiffusionMaxStep}
HistoryLiners == {LinerTypes[1], LinerTypes[2]}
HistoryDesignOptions == {DesignOptions[i] : i \in 1..HistoryDesigns}

\* The outgoing run.  away: a run with another widget tuple has followed it.
Snapshot ==
    [set |-> TRUE,
     velocity |-> velocity_leachate, diffusion |-> diffusion_gas, liner |-> liner_type,
     C_leachate |-> C_leachate, C_gas |-> C_gas, frames |-> frames,
     away |-> <<velocity_leachate', diffusion_gas', liner_type'>>
                  # <<velocity_leachate, diffusion_gas, liner_type>>]

\* The recorded run, kept over one more run of the script.
Kept ==
    IF memo.set
    THEN [memo EXCEPT !.away = memo.away \/ <<velocity_leachate', diffusion_gas', liner_type'>>
                                                # <<memo.velocity, memo.diffusion, memo.liner>>]
    ELSE memo

Remember == memo' \in {Kept, Snapshot}

InitHistory == FirstRun /\ memo = NoMemo /\ probe = NoProbe

HistVelocity == ChangeVelocity(HistoryVelocitySteps) /\ Remember /\ UNCHANGED probe

HistDiffusion == ChangeDiffusion(HistoryDiffusionSteps) /\ Remember /\ UNCHANGED probe

HistLiner == ChangeLiner(HistoryLiners) /\ Remember /\ UNCHANGED probe

HistDesign == ChangeDesign(HistoryDesignOptions) /\ Remember /\ UNCHANGED probe

NextHistory == HistVelocity \/ HistDiffusion \/ HistLiner \/ HistDesign

SpecHistory == InitHistory /\ [][NextHistory]_vars

(***************************************************************************)
(* SpecGas: the gas formula of line 30 as a function of its own, applied   *)
(* to points off the distance grid: every multiple of 20 m up to           *)
(* 20 * ProbeMultiples, every time of the time grid, every explored        *)
(* diffusion rate.                                                         *)
(***************************************************************************)
ProbeMultiples == 5

ProbeInputs ==
    {[set |-> TRUE, done |-> FALSE, x |-> 20 * m * Scale, t |-> TimeGrid[i],
      diffusion |-> DiffusionValue(n), gas |-> 0] :
        m \in 0..ProbeMultiples, i \in 1..TimePoints, n \in DiffusionSteps}

InitGas == FirstRun /\ memo = NoMemo /\ probe \in ProbeInputs

EvaluateGas ==
    /\ probe.set /\ ~probe.done
    /\ probe' = [probe EXCEPT !.done = TRUE, !.gas = GasAt(probe.diffusion, probe.x, probe.t)]
    /\ UNCHANGED <<velocity_leachate, diffusion_gas, liner_type, design_option,
                   x, t, C_leachate, C_gas, frames, fig_data, design_text, memo>>

NextGas == EvaluateGas

SpecGas == InitGas /\ [][NextGas]_vars

(***************************************************************************)
(* Claims                                                                  *)
(***************************************************************************)
Rows(C) == 1..Len(C)

\* a is b cut to fewer rows
StrictPrefix(a, b) == Len(a) < Len(b) /\ a = SubSeq(b, 1, Len(a))

AtDefaults ==
    /\ velocity_leachate = VelocityValue(VelocityDefaultStep)
    /\ diffusion_gas = DiffusionValue(DiffusionDefaultStep)
    /\ liner_type = LinerTypes[1]
    /\ design_option = DesignOptions[1]

\* Both sliders at an end of their range.
AtExtremes ==
    /\ velocity_leachate \in {VelocityValue(VelocityMinStep), VelocityValue(VelocityMaxStep)}
    /\ diffusion_gas \in {DiffusionValue(DiffusionMinStep), DiffusionValue(DiffusionMaxStep)}

MaxGridLen == 12
MaxStride == 4

\* C1 as claimed: the frame sequence has floor((len(t) - 1) / stride)
\* frames: 39 for the 80-point grid and stride 2.
C1_FrameCountIsFloor == Len(frames) = (Len(t) - 1) \div FrameStride

\* C1 amended: the frame sequence has ceil((len(t) - 1) / stride) frames, 40
\* for the 80-point grid and stride 2, one for each index 1, 3, ..., 79; and
\* for any grid length and stride the loop visits ceil((len - 1) / stride)
\* indices.
C1_FrameCountIsCeil ==
    /\ Len(frames) = (Len(t) - 1 + (FrameStride - 1)) \div FrameStride
    /\ Len(t) = 80 => Len(frames) = 40
    /\ \A n \in 1..MaxGridLen : \A st \in 1..MaxStride :
           Len(Range(FrameStart, n, st)) = (n - 1 + (st - 1)) \div st

C1_Witness == ~AtDefaults /\ Len(t) = 80 /\ Len(frames) = 40

\* C2: frame k (from 0) holds exactly the first 1 + 2k rows of the leachate
\* field and the first 1 + 2k rows of the gas field, and of two frames the
\* earlier one's slices are strict prefixes of the later one's.
C2_FramesAreGrowingPrefixes ==
    \A kk \in 1..Len(frames) :
        /\ Len(frames[kk].data[1]) = 1 + 2 * (kk - 1)
        /\ Len(frames[kk].data[2]) = 1 + 2 * (kk - 1)
        /\ frames[kk].data[1] = SubSeq(C_leachate, 1, 1 + 2 * (kk - 1))
        /\ frames[kk].data[2] = SubSeq(C_gas, 1, 1 + 2 * (kk - 1))
        /\ \A jj \in 1..(kk - 1) :
               /\ StrictPrefix(frames[jj].data[1], frames[kk].data[1])
               /\ StrictPrefix(frames[jj].data[2], frames[kk].data[2])

C2_Witness ==
    /\ diffusion_gas = DiffusionValue(DiffusionMinStep)
    /\ Len(frames) >= 2
    /\ Len(frames[Len(frames)].data[1]) = 79
    /\ Len(frames[1].data[2]) = 1

\* C3: after any sequence of runs both fields have len(t) = 80 rows of
\* len(x) = 50 columns each, the same dimensions for both.
C3_FieldDimensions ==
    /\ Len(C_leachate) = 80 /\ Len(C_leachate) = Len(t)
    /\ Len(C_gas) = Len(C_leachate)
    /\ \A i \in Rows(C_leachate) :
           /\ Len(C_leachate[i]) = 50 /\ Len(C_leachate[i]) = Len(x)
           /\ Len(C_gas[i]) = Len(C_leachate[i])

C3_Witness ==
    /\ velocity_leachate = VelocityValue(VelocityMaxStep)
    /\ diffusion_gas = DiffusionValue(DiffusionMinStep)
    /\ liner_type = LinerTypes[3]
    /\ design_option = DesignOptions[3]
    /\ Len(C_leachate) = 80 /\ Len(C_gas[80]) = 50

\* C5: every entry of the time grid is strictly positive (t[0] = 0.1 is the
\* least, the grid increases), so the divisor 4 t of the leachate formula is
\* never zero, in every run.
C5_TimeGridPositive ==
    /\ t[1] = Scale \div 10
    /\ \A i \in Rows(t) : t[i] > 0 /\ 4 * t[i] # 0
    /\ \A i \in 1..(Len(t) - 1) : t[i] < t[i + 1]

C5_Witness ==
    /\ velocity_leachate = VelocityValue(VelocityMinStep)
    /\ liner_type = LinerTypes[2]
    /\ Len(t) = 80 /\ t[1] = 100000 /\ t[80] = 40 * Scale

\* C4: the fields and the frames of a run depend only on the widget tuple
\* of that run: a run with the tuple of a recorded earlier run has that
\* run's leachate field, gas field and frame sequence, whatever runs lie
\* between the two.
C4_SameTupleSameRun ==
    (memo.set /\ <<memo.velocity, memo.diffusion, memo.liner>>
                     = <<velocity_leachate, diffusion_gas, liner_type>>)
        => /\ memo.C_leachate = C_leachate
           /\ memo.C_gas = C_gas
           /\ memo.frames = frames

\* The recorded tuple has come back after a run with another tuple, away
\* from the defaults.
C4_Witness ==
    /\ memo.set /\ memo.away
    /\ <<memo.velocity, memo.diffusion, memo.liner>>
           = <<velocity_leachate, diffusion_gas, liner_type>>
    /\ velocity_leachate = VelocityValue(VelocityMaxStep)
    /\ liner_type = LinerTypes[2]
    /\ memo.frames = frames

OddMultipleOf20(v) == v % (20 * Scale) = 0 /\ (v \div (20 * Scale)) % 2 = 1

C7_GasStrictlyDecreasing ==
    \A i \in 1..(Len(C_gas) - 1) : \A j \in 1..Len(C_gas[i]) :
        C_gas[i + 1][j] < C_gas[i][j]

C7_Witness ==
    /\ diffusion_gas = DiffusionValue(DiffusionMaxStep)
    /\ velocity_leachate = VelocityValue(VelocityMinStep)
    /\ Len(C_gas) = 80
    /\ C_gas[80][50] < C_gas[79][50]
    /\ C_gas[80][50] > 0

ExceedsOne(C) == \E i \in Rows(C) : \E j \in 1..Len(C[i]) : C[i][j] > Scale

WithinUnit(C) == \A i \in Rows(C) : \A j \in 1..Len(C[i]) : C[i][j] >= 0 /\ C[i][j] <= Scale

C9_DesignTextByOption ==
    /\ design_text # NoText
    /\ design_text = DesignText(design_option)
    /\ \A o1 \in Elements(DesignOptions) : \A o2 \in Elements(DesignOptions) :
           (o1 # o2) => (DesignText(o1) # DesignText(o2))
    /\ \A o1 \in Elements(DesignOptions) : (design_text = DesignText(o1)) => (o1 = design_option)

C9_Witness ==
    /\ design_option = DesignOptions[3]
    /\ velocity_leachate = VelocityValue(VelocityMinStep)
    /\ diffusion_gas = DiffusionValue(DiffusionMaxStep)
    /\ liner_type = LinerTypes[2]
    /\ design_text[1] = "Multi-barrier system with GCL, HDPE liner, and biocover."

\* C10: a frame is named after the time of grid index i but holds the rows
\* 0 .. i - 1 only, so the row of the named time is not in it; the row of the
\* last time index (79, t = 40) is in no frame and not in the figure's
\* initial data, which is row 0 alone; the first frame shows the same single
\* row as the initial data.
C10_NamedRowNotInFrame ==
    /\ \A kk \in 1..Len(frames) :
           LET n == Len(frames[kk].data[1])
           IN  /\ n < Len(C_leachate)
               /\ Len(frames[kk].data[2]) = n
               /\ frames[kk].data[1] = SubSeq(C_leachate, 1, n)
               /\ frames[kk].data[2] = SubSeq(C_gas, 1, n)
               /\ frames[kk].name = FrameName(t[n + 1])
    /\ frames[Len(frames)].name = "t = 40.0 days"
    /\ fig_data = <<SubSeq(C_leachate, 1, 1), SubSeq(C_gas, 1, 1)>>
    /\ frames[1].data = fig_data

C10_Witness ==
    /\ velocity_leachate = VelocityValue(VelocityMaxStep)
    /\ diffusion_gas = DiffusionValue(DiffusionMaxStep)
    /\ frames[Len(frames)].name = "t = 40.0 days"
    /\ Len(frames[Len(frames)].data[1]) = 79
    /\ frames[1].name = "t = 0.6 days"
    /\ Len(fig_data[1]) = 1

====
